---- MODULE Spec2Model ----
(***************************************************************************)
(* A model of changelog/changelog.py: the classification of a merge-commit *)
(* message (PullRequest), the Version label of a tag, the aggregation of   *)
(* merge commits per Version and category (render_changelog) and the      *)
(* overwrite protocol of the command line entry point (main).              *)
(*                                                                         *)
(* Python strings whose characters the code inspects are sequences of      *)
(* one-character strings; None is the record None, a value v that may be   *)
(* None is Some(v).                                                        *)
(***************************************************************************)
EXTENDS Integers, Sequences, FiniteSets, TLC

VARIABLES
    \* PullRequest (one commit being classified)
    body,           \* stdout of `git log -1 -U --format=%B <commit>`
    pull,           \* the PullRequest object, once constructed
    topicOut,       \* what pull.topic() returned or raised
    strOut,         \* what str(pull) returned
    \* the Version label of one tag
    tag,            \* the tag (the upper bound of a range)
    legacy,         \* whether the installed pkg_resources still has LegacyVersion
    label,          \* the Version label computed, or the exception raised
    \* render_changelog on a repository
    repoTags,       \* the lines `git tag` prints
    tagPos,         \* the commit each tag (and HEAD) points to
    messages,       \* the message of each merge commit of the history
    rpc,            \* where render_changelog is
    tags,           \* its local `tags`
    pairIdx,        \* the pair of tags its first loop is at
    pull_requests,  \* its dict version -> list of PullRequest
    release_date,   \* its dict version -> date
    changelog,      \* its OrderedDict version -> (topic -> list of str)
    contents,       \* the blocks of the rendered template
    \* main
    quiet, verbose, force, batch, format,   \* the options of the command line
    files,          \* what CHANGELOG.md and CHANGELOG.rst hold
    existed,        \* whether CHANGELOG.<format> was there when main started
    mpc,            \* where main is
    prompts,        \* the confirmations asked of the user so far
    overwriteAnswer, \* the user's answer to "Overwrite existing ...?"
    exitStatus      \* the exit status of the process, once it has ended

classifyVars == <<body, pull, topicOut, strOut>>
labelVars == <<tag, legacy, label>>
repoVars == <<repoTags, tagPos, messages>>
renderVars == <<rpc, tags, pairIdx, pull_requests, release_date, changelog, contents>>
optionVars == <<quiet, verbose, force, batch, format>>
mainVars == <<optionVars, files, existed, mpc, prompts, overwriteAnswer, exitStatus>>
vars == <<classifyVars, labelVars, repoVars, renderVars, mainVars>>

\* ------------------------------------------------------------------ bounds

\* Lines of a commit message.
MaxLines == 3
\* Characters of a tag drawn from TagAlphabet.
MaxTagLen == 3
\* Tags of a repository.
MaxTags == 3
\* Merge commits of a repository's history.
MaxCommits == 2

\* ------------------------------------------------------------- Python values

None == [isNone |-> TRUE, val |-> <<>>]
Some(v) == [isNone |-> FALSE, val |-> v]

\* What a variable holds before the call that sets it.
Unset == "unset"
NoLabel == [status |-> Unset, val |-> <<>>]

\* The parts of the state a specification does not use stay as they are here.
ClassifyIdle ==
    /\ body = <<>>
    /\ pull = None
    /\ topicOut = Unset
    /\ strOut = None

LabelIdle ==
    /\ tag = <<>>
    /\ legacy = FALSE
    /\ label = NoLabel

RenderIdle ==
    /\ repoTags = <<>>
    /\ tagPos = <<>>
    /\ messages = <<>>
    /\ rpc = "idle"
    /\ tags = <<>>
    /\ pairIdx = 0
    /\ pull_requests = <<>>
    /\ release_date = <<>>
    /\ changelog = <<>>
    /\ contents = <<>>

MainIdle ==
    /\ quiet = FALSE
    /\ verbose = FALSE
    /\ force = FALSE
    /\ batch = FALSE
    /\ format = "rst"
    /\ files = <<>>
    /\ existed = FALSE
    /\ mpc = "idle"
    /\ prompts = <<>>
    /\ overwriteAnswer = Unset
    /\ exitStatus = Unset

Min(S) == CHOOSE x \in S : \A y \in S : x <= y

\* The characters str.strip() removes and \s matches, \S does not.
Whitespace == {" ", "\t", "\n"}
Digits == {"0", "1", "2", "3", "4", "5", "6", "7", "8", "9"}

\* str.startswith
startswith(s, p) == Len(p) <= Len(s) /\ SubSeq(s, 1, Len(p)) = p

RECURSIVE lstrip(_)
lstrip(s) ==
    IF s # <<>> /\ Head(s) \in Whitespace THEN lstrip(Tail(s)) ELSE s

RECURSIVE rstrip(_)
rstrip(s) ==
    IF s # <<>> /\ s[Len(s)] \in Whitespace
    THEN rstrip(SubSeq(s, 1, Len(s) - 1))
    ELSE s

\* str.strip()
strip(s) == rstrip(lstrip(s))

\* str.splitlines(): no line for the text after a final line break.
RECURSIVE splitlines(_)
splitlines(s) ==
    IF s = <<>> THEN <<>>
    ELSE LET nl == {i \in 1..Len(s) : s[i] = "\n"}
         IN  IF nl = {} THEN <<s>>
             ELSE <<SubSeq(s, 1, Min(nl) - 1)>>
                      \o splitlines(SubSeq(s, Min(nl) + 1, Len(s)))

\* The number of consecutive characters of s, from index i on, that are in (when
\* inside) or not in (when not inside) the set C: a greedy [..]* of the regex.
RECURSIVE span(_, _, _, _)
span(s, i, C, inside) ==
    IF i <= Len(s) /\ ((s[i] \in C) = inside)
    THEN 1 + span(s, i + 1, C, inside)
    ELSE 0

\* --------------------------------------------------------------- PullRequest

SECTIONS == <<"Added", "Changed", "Deprecated", "Removed", "Fixed", "Security">>

\* The literal parts of PR_REGEX:
\*   "Merge pull request (?P<pr>#[0-9]+) from (?P<branch>[\S]*)(?P<postscript>[\s\S]*$)"
PR_MERGE == <<"M", "e", "r", "g", "e", " ", "p", "u", "l", "l", " ",
              "r", "e", "q", "u", "e", "s", "t", " ">>
PR_FROM == <<" ", "f", "r", "o", "m", " ">>

NoMatch == [matched |-> FALSE, pr |-> <<>>, branch |-> <<>>, postscript |-> <<>>]

\* re.match(PR_REGEX, line): anchored at the start of the line; the greedy groups
\* cannot give characters back, a digit is no space and [\s\S]*$ takes any rest.
PR_REGEX(line) ==
    LET hash == Len(PR_MERGE) + 1
        nd == span(line, hash + 1, Digits, TRUE)
        from == hash + 1 + nd
        br == from + Len(PR_FROM)
        nb == span(line, br, Whitespace, FALSE)
    IN  IF /\ startswith(line, PR_MERGE \o <<"#">>)
           /\ nd >= 1
           /\ startswith(SubSeq(line, from, Len(line)), PR_FROM)
        THEN [matched |-> TRUE,
              pr |-> SubSeq(line, hash, from - 1),
              branch |-> SubSeq(line, br, br + nb - 1),
              postscript |-> SubSeq(line, br + nb, Len(line))]
        ELSE NoMatch

\* PullRequest._parse_pr_string: the groups, or None when the line does not match.
parse_pr_string(line) ==
    LET m == PR_REGEX(line)
    IN  IF m.matched
        THEN Some([pr |-> m.pr, branch |-> m.branch, postscript |-> m.postscript])
        ELSE None

\* PullRequest.raw_body: git's output, stripped.
raw_body(out) == strip(out)

\* The first loop of __init__: the groups of the first line that matches.
FirstPr(lines) ==
    LET hit == {i \in 1..Len(lines) : ~parse_pr_string(lines[i]).isNone}
    IN  IF hit = {} THEN None ELSE parse_pr_string(lines[Min(hit)])

\* Mutant: the summary is the line after the first pull-request line.
FirstSummaryAfterPr(lines) ==
    LET hit == {i \in 1..Len(lines) : ~parse_pr_string(lines[i]).isNone}
    IN  IF hit = {}
        THEN (IF lines = <<>> THEN None ELSE Some(strip(lines[1])))
        ELSE IF Min(hit) < Len(lines) THEN Some(strip(lines[Min(hit) + 1])) ELSE None

\* The second loop of __init__: the first line that does not match, stripped.
FirstSummary(lines) ==
    LET miss == {i \in 1..Len(lines) : parse_pr_string(lines[i]).isNone}
    IN  IF miss = {} THEN None ELSE Some(strip(lines[Min(miss)]))

\* PullRequest.__init__
PullRequestInit(commit, out) ==
    LET lines == splitlines(raw_body(out))
        pr == FirstPr(lines)
    IN  [commit |-> commit,
         pr |-> IF pr.isNone THEN None ELSE Some(pr.val.pr),
         branch |-> IF pr.isNone THEN None ELSE Some(pr.val.branch),
         postscript |-> IF pr.isNone THEN None ELSE Some(pr.val.postscript),
         summary |-> FirstSummary(lines)]

\* "{summary}".format(summary=x): None is written "None".
Format(x) == IF x.isNone THEN <<"N", "o", "n", "e">> ELSE x.val

LINK_OPEN == <<" ", "[", "[", "#">>
LINK_URL == <<"]", "(", "h", "t", "t", "p", "s", ":", "/", "/", "g", "i", "t", "h",
              "u", "b", ".", "c", "o", "m", "/", "c", "s", "d", "m", "s", "/", "p",
              "y", "m", "t", "/", "p", "u", "l", "l", "/">>
LINK_CLOSE == <<")", "]">>

\* PullRequest.__str__
PullRequestStr(p) ==
    IF ~p.pr.isNone /\ p.pr.val # <<>>
    THEN Format(p.summary) \o LINK_OPEN \o Tail(p.pr.val)
             \o LINK_URL \o Tail(p.pr.val) \o LINK_CLOSE
    ELSE Format(p.summary)

ADD == <<"A", "d", "d">>
DEPRECATE == <<"D", "e", "p", "r", "e", "c", "a", "t", "e">>
REMOVE == <<"R", "e", "m", "o", "v", "e">>
FIX == <<"F", "i", "x">>
SECURITY == <<"S", "e", "c", "u", "r", "i", "t", "y">>

\* None.startswith raises.
AttributeError == "AttributeError"

\* Mutant: the prefixes are matched whatever the case of their first letter.
PullRequestTopicAnyCase(p) ==
    IF p.summary.isNone THEN AttributeError
    ELSE LET summary == p.summary.val
             low(w) == <<CHOOSE c \in {"a", "d", "r", "f", "s"} :
                            <<Head(w), c>> \in {<<"A", "a">>, <<"D", "d">>, <<"R", "r">>,
                                                <<"F", "f">>, <<"S", "s">>}>> \o Tail(w)
             starts(w) == startswith(summary, w) \/ startswith(summary, low(w))
         IN  IF starts(ADD) THEN "Added"
             ELSE IF starts(DEPRECATE) THEN "Deprecated"
             ELSE IF starts(REMOVE) THEN "Removed"
             ELSE IF starts(FIX) THEN "Fixed"
             ELSE IF starts(SECURITY) THEN "Security"
             ELSE "Changed"

\* PullRequest.topic
PullRequestTopic(p) ==
    IF p.summary.isNone THEN AttributeError
    ELSE LET summary == p.summary.val
         IN  IF startswith(summary, ADD) THEN "Added"
             ELSE IF startswith(summary, DEPRECATE) THEN "Deprecated"
             ELSE IF startswith(summary, REMOVE) THEN "Removed"
             ELSE IF startswith(summary, FIX) THEN "Fixed"
             ELSE IF startswith(summary, SECURITY) THEN "Security"
             ELSE "Changed"

\* ------------------------------------------------- commit messages (inputs)

Digits42 == <<"4", "2">>
L_PR42 == PR_MERGE \o <<"#">> \o Digits42 \o PR_FROM
              \o <<"a", "l", "i", "c", "e", "/", "a", "d", "d", "-", "f", "o", "o">>
L_PR7 == PR_MERGE \o <<"#", "7">> \o PR_FROM \o <<"b", "/", "c", " ", " ", "p", "s">>
L_NearMiss == PR_MERGE \o <<"#", "4", "2", "x">> \o PR_FROM \o <<"a">>
L_Indented == <<" ">> \o PR_MERGE \o <<"#", "9">> \o PR_FROM \o <<"c">>
L_Add == <<"A", "d", "d", " ", "f", "o", "o", " ", "s", "u", "p", "p", "o", "r", "t">>
L_Fix == <<"F", "i", "x", " ", "b", "a", "r", " ", "c", "r", "a", "s", "h">>
L_Deprecate == DEPRECATE \o <<"d">>
L_Remove == <<" ", " ">> \o REMOVE \o <<" ", "x", "\t">>
L_Security == SECURITY
L_Lower == <<"a", "d", "d", " ", "x">>
L_Fi == <<"F", "i">>
L_Blank == <<>>

Lines == {L_PR42, L_PR7, L_NearMiss, L_Indented, L_Add, L_Fix, L_Deprecate,
          L_Remove, L_Security, L_Lower, L_Fi, L_Blank}

\* The text of a message: every line ended by a line break.
RECURSIVE Text(_)
Text(ls) == IF ls = <<>> THEN <<>> ELSE Head(ls) \o <<"\n">> \o Text(Tail(ls))

\* What `git log -1 --format=%B` prints for a message: the message, a line break.
GitLogB(ls) == Text(ls) \o <<"\n">>

\* A commit message with a subject and body lines, as git keeps it: the subject,
\* a blank line, the body.
Message(subject, bodyLines) ==
    IF bodyLines = <<>> THEN <<subject>> ELSE <<subject, L_Blank>> \o bodyLines

LineSeqs(n) == UNION {[1..k -> Lines] : k \in 0..n}

\* ------------------------------------------------------------ Version labels

\* str.split(sep) for a one-character separator.
RECURSIVE split(_, _)
split(s, sep) ==
    LET at == {i \in 1..Len(s) : s[i] = sep}
    IN  IF at = {} THEN <<s>>
        ELSE <<SubSeq(s, 1, Min(at) - 1)>> \o split(SubSeq(s, Min(at) + 1, Len(s)), sep)

\* sep.join(parts)
RECURSIVE join(_, _)
join(parts, sep) ==
    IF parts = <<>> THEN <<>>
    ELSE IF Len(parts) = 1 THEN parts[1]
    ELSE parts[1] \o <<sep>> \o join(Tail(parts), sep)

IsDigits(s) == s # <<>> /\ \A i \in 1..Len(s) : s[i] \in Digits

\* str(int(s)) for a string of digits: leading zeros go.
RECURSIVE str_int(_)
str_int(s) == IF Len(s) > 1 /\ Head(s) = "0" THEN str_int(Tail(s)) ELSE s

\* pkg_resources.parse_version(s) and the base_version of its result, for the
\* release-only versions (PEP 440's "v"? N(.N)*; the tags of the model hold no
\* pre, post, dev, epoch or local part). Another string is a LegacyVersion, whose
\* base_version is the string itself, where pkg_resources still has one, and
\* raises InvalidVersion where it does not.
parse_version(s, hasLegacy) ==
    LET t == strip(s)
        u == IF t # <<>> /\ Head(t) = "v" THEN Tail(t) ELSE t
        release == split(u, ".")
    IN  IF \A i \in 1..Len(release) : IsDigits(release[i])
        THEN [kind |-> "Version",
              base_version |-> join([i \in 1..Len(release) |-> str_int(release[i])], ".")]
        ELSE IF hasLegacy
        THEN [kind |-> "LegacyVersion", base_version |-> s]
        ELSE [kind |-> "InvalidVersion", base_version |-> <<>>]

Raised(e) == [status |-> e, val |-> <<>>]
Returned(v) == [status |-> "ok", val |-> v]

\* x[:2] of a list
FirstTwo(x) == SubSeq(x, 1, IF Len(x) < 2 THEN Len(x) ELSE 2)

\* The version of render_changelog's loop, computed from the upper tag `stop`.
VersionLabel(stop, hasLegacy) ==
    IF startswith(stop, <<"v">>)
    THEN LET v == parse_version(Tail(stop), hasLegacy)
         IN  IF v.kind = "InvalidVersion" THEN Raised("InvalidVersion")
             ELSE Returned(join(FirstTwo(split(v.base_version, ".")), "."))
    ELSE Returned(stop)

HEAD == <<"H", "E", "A", "D">>
T_v100 == <<"v", "1", ".", "0", ".", "0">>
T_v110 == <<"v", "1", ".", "1", ".", "0">>
T_v111 == <<"v", "1", ".", "1", ".", "1">>
T_v200 == <<"v", "2", ".", "0", ".", "0">>
T_v231 == <<"v", "2", ".", "3", ".", "1">>
T_231 == <<"2", ".", "3", ".", "1">>
T_vnext == <<"v", "n", "e", "x", "t">>
T_experimental == <<"e", "x", "p", "e", "r", "i", "m", "e", "n", "t", "a", "l">>

TagAlphabet == {"v", "0", "1", ".", "x"}

\* A name git accepts for a tag, among the strings over TagAlphabet: not empty, no
\* dot first or last, no two dots in a row.
IsRefName(t) ==
    /\ t # <<>>
    /\ Head(t) # "."
    /\ t[Len(t)] # "."
    /\ \A i \in 1..(Len(t) - 1) : ~(t[i] = "." /\ t[i + 1] = ".")

Tags ==
    {t \in UNION {[1..k -> TagAlphabet] : k \in 1..MaxTagLen} : IsRefName(t)}
        \cup {HEAD, T_v100, T_v110, T_v111, T_v200, T_v231, T_231, T_vnext,
              T_experimental}

LabelInit ==
    /\ ClassifyIdle
    /\ RenderIdle
    /\ MainIdle
    /\ tag \in Tags
    /\ legacy \in BOOLEAN
    /\ label = NoLabel

\* Lines 174-177 for one upper tag.
ComputeLabel ==
    /\ tag # <<>>
    /\ label = NoLabel
    /\ label' = VersionLabel(tag, legacy)
    /\ UNCHANGED <<tag, legacy, classifyVars, repoVars, renderVars, mainVars>>

LabelNext == ComputeLabel

SpecLabel == LabelInit /\ [][LabelNext]_vars

\* A release-only numeric version: N(.N)*.
IsRelease(u) == LET c == split(u, ".") IN \A i \in 1..Len(c) : IsDigits(c[i])

\* The tag parses as a numeric version, its leading marker "v" aside.
NumericTag(t) == IsRelease(t) \/ (t # <<>> /\ Head(t) = "v" /\ IsRelease(Tail(t)))

\* major.minor of a numeric tag.
MajorMinor(t) ==
    LET c == split(IF Head(t) = "v" THEN Tail(t) ELSE t, ".")
    IN  join(FirstTwo([i \in 1..Len(c) |-> str_int(c[i])]), ".")

\* C3: the Version label of an upper tag is the tag's major.minor numeric prefix
\* when the tag parses as a numeric version and the raw tag when it does not, and
\* computing it never fails.
LabelOfTag ==
    (label # NoLabel) =>
        /\ label.status = "ok"
        /\ NumericTag(tag) => label.val = MajorMinor(tag)
        /\ ~NumericTag(tag) => label.val = tag

\* ------------------------------------------------------ classifying a commit


ClassifyInit ==
    /\ LabelIdle
    /\ RenderIdle
    /\ MainIdle
    /\ body \in {GitLogB(ls) : ls \in LineSeqs(MaxLines)}
    /\ pull = None
    /\ topicOut = Unset
    /\ strOut = None

\* PullRequest(commit)
Construct ==
    /\ pull.isNone
    /\ pull' = Some(PullRequestInit(1, body))
    /\ UNCHANGED <<body, topicOut, strOut, labelVars, repoVars, renderVars, mainVars>>

\* pull.topic()
CallTopic ==
    /\ ~pull.isNone
    /\ topicOut = Unset
    /\ topicOut' = PullRequestTopic(pull.val)
    /\ UNCHANGED <<body, pull, strOut, labelVars, repoVars, renderVars, mainVars>>

\* str(pull)
CallStr ==
    /\ ~pull.isNone
    /\ strOut.isNone
    /\ strOut' = Some(PullRequestStr(pull.val))
    /\ UNCHANGED <<body, pull, topicOut, labelVars, repoVars, renderVars, mainVars>>

ClassifyNext == Construct \/ CallTopic \/ CallStr

SpecClassify == ClassifyInit /\ [][ClassifyNext]_vars

\* ------------------------------------------------- claims on the classifier

\* p is a prefix of s, character by character.
HasPrefix(s, p) == Len(s) >= Len(p) /\ \A i \in 1..Len(p) : s[i] = p[i]

BodyLines == splitlines(raw_body(body))
PrLineIdx == {i \in 1..Len(BodyLines) : PR_REGEX(BodyLines[i]).matched}
OtherLineIdx == (1..Len(BodyLines)) \ PrLineIdx

\* C2: topic() returns Added, Deprecated, Removed, Fixed or Security exactly when
\* the summary string starts with "Add", "Deprecate", "Remove", "Fix" or
\* "Security", and Changed for every other summary string.
TopicFollowsPrefix ==
    (~pull.isNone /\ ~pull.val.summary.isNone /\ topicOut # Unset) =>
        LET s == pull.val.summary.val
        IN  /\ (topicOut = "Added") = HasPrefix(s, ADD)
            /\ (topicOut = "Deprecated") = HasPrefix(s, DEPRECATE)
            /\ (topicOut = "Removed") = HasPrefix(s, REMOVE)
            /\ (topicOut = "Fixed") = HasPrefix(s, FIX)
            /\ (topicOut = "Security") = HasPrefix(s, SECURITY)
            /\ (topicOut = "Changed") =
                   (\A p \in {ADD, DEPRECATE, REMOVE, FIX, SECURITY} : ~HasPrefix(s, p))

\* A summary that only comes close to a prefix ("Fi") has been classified.
TopicFollowsPrefixWitness ==
    /\ ~pull.isNone
    /\ pull.val.summary = Some(L_Fi)
    /\ topicOut = "Changed"

\* The example of the specification: subject "Merge pull request #42 from
\* alice/add-foo", body line "Add foo support".
ExampleBody == GitLogB(Message(L_PR42, <<L_Add>>))
ExampleEntry == L_Add \o LINK_OPEN \o Digits42 \o LINK_URL \o Digits42 \o LINK_CLOSE

\* The digits that follow '#' on a line.
DigitsAfterHash(line) ==
    LET h == Len(PR_MERGE) + 1
    IN  SubSeq(line, h + 1, h + span(line, h + 1, Digits, TRUE))

\* C4: the display string is "<summary> [[#<N>](https://github.com/csdms/pymt/pull/<N>)]"
\* with <N> the digits after '#' on the first matching line, and "<summary>" when
\* no line matches; the message with subject "Merge pull request #42 from
\* alice/add-foo" and body line "Add foo support" yields
\* "Add foo support [[#42](.../pull/42)]" in category Added.
DisplayString ==
    /\ (~pull.isNone /\ ~strOut.isNone) =>
           LET n == DigitsAfterHash(BodyLines[Min(PrLineIdx)])
           IN  IF PrLineIdx # {}
               THEN strOut.val = Format(pull.val.summary) \o LINK_OPEN \o n
                                     \o LINK_URL \o n \o LINK_CLOSE
               ELSE strOut.val = Format(pull.val.summary)
    /\ (body = ExampleBody /\ ~strOut.isNone) => strOut.val = ExampleEntry
    /\ (body = ExampleBody /\ topicOut # Unset) => topicOut = "Added"

\* C5: classifying a commit whose message has no line that can serve as summary
\* does not raise: the constructor, topic() and str() all complete.
NoSummaryDoesNotRaise ==
    (~pull.isNone /\ OtherLineIdx = {}) => topicOut # AttributeError

\* C6: the summary is the trimmed text of the first line that does not match the
\* pull-request pattern, wherever the pull-request lines are and whether or not
\* there are any.
SummaryIsFirstOtherLine ==
    (~pull.isNone /\ OtherLineIdx # {}) =>
        /\ pull.val.summary = Some(strip(BodyLines[Min(OtherLineIdx)]))
        /\ pull.val.summary =
               Some(strip(Head(SelectSeq(BodyLines, LAMBDA l : ~PR_REGEX(l).matched))))

\* The summary line follows a pull-request line and a blank line follows it: the
\* summary is not the blank line's, and it was trimmed.
SummaryIsFirstOtherLineWitness ==
    /\ ~pull.isNone
    /\ body = GitLogB(<<L_PR42, L_Remove, L_PR7>>)
    /\ pull.val.summary = Some(REMOVE \o <<" ", "x">>)

\* ------------------------------------------------------------- dictionaries

\* A dict in insertion order: a sequence of [k, v], no key twice.
Keys(d) == [i \in 1..Len(d) |-> d[i].k]
Has(d, key) == \E i \in 1..Len(d) : d[i].k = key
Get(d, key) == d[CHOOSE i \in 1..Len(d) : d[i].k = key].v
\* d[key] = v: a new key goes last, a key already there keeps its place.
Put(d, key, v) ==
    IF Has(d, key)
    THEN [i \in 1..Len(d) |-> IF d[i].k = key THEN [k |-> key, v |-> v] ELSE d[i]]
    ELSE Append(d, [k |-> key, v |-> v])
\* d[key] of a defaultdict(list)
GetList(d, key) == IF Has(d, key) THEN Get(d, key) ELSE <<>>

Reverse(x) == [i \in 1..Len(x) |-> x[Len(x) + 1 - i]]

\* ----------------------------------------------------------- the repository

\* The history is a line of merge commits 1..MaxCommits, commit p made on day p,
\* after a root commit 0; a ref points at one of them and reaches it and the
\* commits before it.
Commits == 1..MaxCommits

\* git_tag(): the lines `git tag` prints.
git_tag == repoTags

\* Mutant: the range's lower end is ignored, as for start=None.
git_list_merges_all(start, stop) == [i \in 1..tagPos[stop] |-> tagPos[stop] + 1 - i]

\* git_list_merges(start, stop): the merge commits stop reaches and start does
\* not, newest first.
git_list_merges(start, stop) ==
    LET hi == tagPos[stop]
        lo == IF tagPos[start] < hi THEN tagPos[start] ELSE hi
    IN  [i \in 1..(hi - lo) |-> hi + 1 - i]

\* git_tag_date(tag): the day of the commit the tag points to.
git_tag_date(t) == tagPos[t]

\* Mutant: the tags are not reversed.
releasesNotReversed(ascending) == git_tag \o <<HEAD>>

\* releases(ascending)
releases(ascending) ==
    LET all == git_tag \o <<HEAD>>
    IN  IF ascending THEN all ELSE Reverse(all)

\* ---------------------------------------------------------- render_changelog

\* Mutant: a date already recorded for the version is kept.
SetReleaseDateKeepFirst(dates, version, date) ==
    IF Has(dates, version) THEN dates ELSE Put(dates, version, date)

\* release_date[version] = date
SetReleaseDate(dates, version, date) == Put(dates, version, date)

\* pull_requests[version].append(PullRequest(commit)) for the commits listed
RECURSIVE AppendPulls(_, _, _)
AppendPulls(pulls, version, commits) ==
    IF commits = <<>> THEN pulls
    ELSE AppendPulls(
             Put(pulls, version,
                 Append(GetList(pulls, version),
                        PullRequestInit(Head(commits), GitLogB(messages[Head(commits)])))),
             version, Tail(commits))

\* groups[pull.topic()].append(str(pull)) for the pulls of one version
RECURSIVE GroupPulls(_, _)
GroupPulls(pulls, groups) ==
    IF pulls = <<>> THEN groups
    ELSE GroupPulls(
             Tail(pulls),
             Put(groups, PullRequestTopic(Head(pulls)),
                 Append(GetList(groups, PullRequestTopic(Head(pulls))),
                        PullRequestStr(Head(pulls)))))

\* The blocks the template writes: one per item of releases, with the date
\* release_date holds for it, one section per item of its groups.
RenderTemplate(rel, dates) ==
    [i \in 1..Len(rel) |->
        [version |-> rel[i].k, released |-> Get(dates, rel[i].k), sections |-> rel[i].v]]

M_Add == <<L_Add>>
M_AddPR == <<L_Add, L_Blank, L_PR7>>
M_Fix == <<L_Fix>>
M_PROnly == <<L_PR42>>
CommitMessages == {M_Add, M_AddPR, M_Fix, M_PROnly}

TagPool == {T_v110, T_v111, T_v200}

IsDistinct(x) == \A i, j \in 1..Len(x) : i # j => x[i] # x[j]
TagLists == {x \in UNION {[1..n -> TagPool] : n \in 0..MaxTags} : IsDistinct(x)}

RenderInit ==
    /\ ClassifyIdle
    /\ LabelIdle
    /\ MainIdle
    /\ repoTags \in TagLists
    /\ tagPos \in {f \in [{repoTags[i] : i \in 1..Len(repoTags)} \cup {HEAD} -> 0..MaxCommits] :
                      f[HEAD] = MaxCommits}
    /\ messages \in [Commits -> CommitMessages]
    /\ rpc = "start"
    /\ tags = <<>>
    /\ pairIdx = 0
    /\ pull_requests = <<>>
    /\ release_date = <<>>
    /\ changelog = <<>>
    /\ contents = <<>>

\* tags = releases(ascending=False)
Releases ==
    /\ rpc = "start"
    /\ tags' = releases(FALSE)
    /\ pairIdx' = 1
    /\ rpc' = IF Len(tags') > 1 THEN "aggregate" ELSE "render"
    /\ UNCHANGED <<pull_requests, release_date, changelog, contents,
                   repoVars, classifyVars, labelVars, mainVars>>

\* One turn of `for start, stop in zip(tags[1:], tags[:-1])`.
AggregatePair ==
    /\ rpc = "aggregate"
    /\ LET start == tags[pairIdx + 1]
           stop == tags[pairIdx]
           version == VersionLabel(stop, legacy)
       IN  IF version.status # "ok"
           THEN /\ rpc' = "raised"
                /\ UNCHANGED <<pairIdx, pull_requests, release_date>>
           ELSE /\ pull_requests' =
                       AppendPulls(pull_requests, version.val, git_list_merges(start, stop))
                /\ release_date' =
                       SetReleaseDate(release_date, version.val, git_tag_date(stop))
                /\ pairIdx' = pairIdx + 1
                /\ rpc' = IF pairIdx + 1 < Len(tags)
                          THEN "aggregate"
                          ELSE IF pull_requests' = <<>> THEN "render" ELSE "group"
    /\ UNCHANGED <<tags, changelog, contents, repoVars, classifyVars, labelVars, mainVars>>

\* One turn of `for version, pulls in pull_requests.items()`.
GroupVersion ==
    /\ rpc = "group"
    /\ LET item == pull_requests[Len(changelog) + 1]
       IN  IF \E i \in 1..Len(item.v) : PullRequestTopic(item.v[i]) = AttributeError
           THEN /\ rpc' = "raised"
                /\ UNCHANGED changelog
           ELSE /\ changelog' = Put(changelog, item.k, GroupPulls(item.v, <<>>))
                /\ rpc' = IF Len(changelog') < Len(pull_requests) THEN "group" ELSE "render"
    /\ UNCHANGED <<tags, pairIdx, pull_requests, release_date, contents,
                   repoVars, classifyVars, labelVars, mainVars>>

\* The template is rendered.
Render ==
    /\ rpc = "render"
    /\ contents' = RenderTemplate(changelog, release_date)
    /\ rpc' = "done"
    /\ UNCHANGED <<tags, pairIdx, pull_requests, release_date, changelog,
                   repoVars, classifyVars, labelVars, mainVars>>

RenderNext == Releases \/ AggregatePair \/ GroupVersion \/ Render

SpecRender == RenderInit /\ [][RenderNext]_vars

\* ------------------------------------------------ claims on render_changelog

Max(S) == CHOOSE x \in S : \A y \in S : x >= y

\* The tag listing, oldest first, the unreleased tip last.
Listing == repoTags \o <<HEAD>>
\* Listing[j] is the upper tag of a pair, Listing[j - 1] its lower tag.
UpperIdx == 2..Len(Listing)
\* The merge commits in the range (lower, upper] of the pair of upper Listing[j].
RangeOf(j) == {p \in Commits : tagPos[Listing[j - 1]] < p /\ p <= tagPos[Listing[j]]}
LabelOf(t) == VersionLabel(t, legacy).val
\* The commits in the ranges of the uppers labelled v.
CommitsOf(v) == UNION {RangeOf(j) : j \in {i \in UpperIdx : LabelOf(Listing[i]) = v}}
\* Every tag of the listing reaches the tags before it: the listing is in
\* ancestry order, which on this history is the chronological order.
AncestryOrdered ==
    \A i, j \in 1..Len(Listing) : i < j => tagPos[Listing[i]] <= tagPos[Listing[j]]

CommitPull(p) == PullRequestInit(p, GitLogB(messages[p]))
SectionIdx(c) == IF \E i \in 1..Len(SECTIONS) : SECTIONS[i] = c
                 THEN CHOOSE i \in 1..Len(SECTIONS) : SECTIONS[i] = c
                 ELSE 0

Aggregated == rpc \in {"group", "render", "done"}

\* C1: in the document built by render_changelog the categories present in a
\* Version appear in the order of SECTIONS, whatever the order in which the
\* Version's merge commits were inserted, and a category with no entry is absent.
CategoriesInFixedOrder ==
    rpc = "done" =>
        \A b \in 1..Len(contents) :
            LET cats == Keys(contents[b].sections)
            IN  /\ \A i, j \in 1..Len(cats) : i < j => SectionIdx(cats[i]) < SectionIdx(cats[j])
                /\ \A i \in 1..Len(cats) : contents[b].sections[i].v # <<>>

\* C7 as stated: after aggregation release_date holds, under the label of every
\* upper tag, the date of that upper tag, also when two tags yield one label.
DateOfEveryUpper ==
    Aggregated =>
        \A j \in UpperIdx :
            Get(release_date, LabelOf(Listing[j])) = git_tag_date(Listing[j])

\* C7, amended: after aggregation release_date holds, under the label of every
\* upper tag, the date of the upper tag walked last among those that yield this
\* label, the oldest of them in the listing; it is the date of the upper tag
\* itself when no older upper tag yields the same label.
DateOfOldestUpperOfLabel ==
    Aggregated =>
        \A j \in UpperIdx :
            LET same == {i \in UpperIdx : LabelOf(Listing[i]) = LabelOf(Listing[j])}
            IN  /\ Has(release_date, LabelOf(Listing[j]))
                /\ Get(release_date, LabelOf(Listing[j])) = git_tag_date(Listing[Min(same)])

\* Two upper tags with one label and two dates have been aggregated.
DateOfOldestUpperOfLabelWitness ==
    /\ rpc = "done"
    /\ \E i, j \in UpperIdx :
           /\ i < j
           /\ LabelOf(Listing[i]) = LabelOf(Listing[j])
           /\ git_tag_date(Listing[i]) # git_tag_date(Listing[j])

\* The elements of a set of numbers, largest first.
RECURSIVE Descending(_)
Descending(S) == IF S = {} THEN <<>> ELSE <<Max(S)>> \o Descending(S \ {Max(S)})

\* The newest upper tag that gives entries to Version v (0: none does).
NewestSource(v) ==
    LET src == {j \in UpperIdx : LabelOf(Listing[j]) = v /\ RangeOf(j) # {}}
    IN  IF src = {} THEN 0 ELSE Max(src)

\* The display strings of the commits of Version v in category c, newest first.
ExpectedEntries(v, c) ==
    LET ps == Descending({p \in CommitsOf(v) : PullRequestTopic(CommitPull(p)) = c})
    IN  [i \in 1..Len(ps) |-> PullRequestStr(CommitPull(ps[i]))]

\* C8: given a tag listing in chronological ascending order, the Versions of the
\* document appear most recent first: the Version of HEAD, when it has entries,
\* comes first, a Version derived from a newer tag precedes a Version derived
\* from an older one (a Version is derived from the newest tag that gives it
\* entries), and the entries of a category keep the order of the merge listing.
VersionsNewestFirst ==
    (rpc = "done" /\ AncestryOrdered) =>
        /\ (Len(Listing) > 1 /\ RangeOf(Len(Listing)) # {}) =>
               (contents # <<>> /\ contents[1].version = HEAD)
        /\ \A a, b \in 1..Len(contents) :
               a < b => NewestSource(contents[a].version) > NewestSource(contents[b].version)
        /\ \A b \in 1..Len(contents) :
               \A i \in 1..Len(contents[b].sections) :
                   contents[b].sections[i].v =
                       ExpectedEntries(contents[b].version, contents[b].sections[i].k)

\* The document holds the Version of HEAD and, after it, the Version of a tag.
VersionsNewestFirstWitness ==
    /\ rpc = "done"
    /\ AncestryOrdered
    /\ Len(contents) = 2
    /\ contents[1].version = HEAD
    /\ contents[2].version = LabelOf(Listing[Len(Listing) - 1])

\* Where commit p is in pull_requests: <<item, place in the item's list>>.
PlacesOf(p) ==
    {x \in (1..Len(pull_requests)) \X Commits :
        /\ x[2] <= Len(pull_requests[x[1]].v)
        /\ pull_requests[x[1]].v[x[2]].commit = p}

\* C9: given tags listed in ancestry order, every merge commit in the range of a
\* pair is placed once, under the Version of the pair's upper tag and in one
\* category of it; a merge commit the oldest tag reaches is in no Version; a
\* Version whose ranges hold no merge commit has no block.
EveryCommitPlacedOnce ==
    (rpc = "done" /\ AncestryOrdered) =>
        /\ \A p \in Commits :
               LET owners == {j \in UpperIdx : p \in RangeOf(j)}
               IN  IF owners = {} THEN PlacesOf(p) = {}
                   ELSE /\ Cardinality(PlacesOf(p)) = 1
                        /\ \A x \in PlacesOf(p) :
                               \A j \in owners : pull_requests[x[1]].k = LabelOf(Listing[j])
        /\ {contents[b].version : b \in 1..Len(contents)}
               = {LabelOf(Listing[j]) : j \in {i \in UpperIdx : RangeOf(i) # {}}}
        /\ \A a, b \in 1..Len(contents) :
               a # b => contents[a].version # contents[b].version
        /\ \A b \in 1..Len(contents) :
               /\ \A i \in 1..Len(contents[b].sections) :
                      SectionIdx(contents[b].sections[i].k) # 0
               /\ \A i \in 1..Len(SECTIONS) :
                      Len(GetList(contents[b].sections, SECTIONS[i]))
                          = Cardinality({p \in CommitsOf(contents[b].version) :
                                            PullRequestTopic(CommitPull(p)) = SECTIONS[i]})

\* A commit the oldest tag reaches, an upper tag with an empty range and a commit
\* placed under HEAD.
EveryCommitPlacedOnceWitness ==
    /\ rpc = "done"
    /\ AncestryOrdered
    /\ Len(Listing) = 3
    /\ tagPos[Listing[1]] >= 1
    /\ RangeOf(2) = {}
    /\ RangeOf(3) # {}
    /\ Len(contents) = 1

\* ---------------------------------------------------------------------- main

LooksGood == "Looks good?"
OverwriteExisting == "Overwrite existing CHANGELOG?"

MainInit ==
    /\ ClassifyIdle
    /\ LabelIdle
    /\ RenderIdle
    /\ quiet \in BOOLEAN
    /\ verbose \in BOOLEAN
    /\ force \in BOOLEAN
    /\ batch \in BOOLEAN
    /\ format \in {"md", "rst"}
    /\ files \in [{"md", "rst"} -> {"absent", "old"}]
    /\ existed = (files[format] = "old")
    /\ mpc = "start"
    /\ prompts = <<>>
    /\ overwriteAnswer = Unset
    /\ exitStatus = Unset

\* contents = render_changelog(format=format); path_to_changelog = ...
MainRender ==
    /\ mpc = "start"
    /\ mpc' = "preview"
    /\ UNCHANGED <<optionVars, files, existed, prompts, overwriteAnswer, exitStatus,
                   classifyVars, labelVars, repoVars, renderVars>>

\* if not batch and not quiet: the pager, then click.confirm("Looks good?",
\* abort=True), which ends the process with status 1 on a no.
Preview ==
    /\ mpc = "preview"
    /\ IF ~batch /\ ~quiet
       THEN \E yes \in BOOLEAN :
                /\ prompts' = Append(prompts, LooksGood)
                /\ mpc' = IF yes THEN "check" ELSE "ended"
                /\ exitStatus' = IF yes THEN exitStatus ELSE 1
       ELSE /\ mpc' = "check"
            /\ UNCHANGED <<prompts, exitStatus>>
    /\ UNCHANGED <<optionVars, files, existed, overwriteAnswer,
                   classifyVars, labelVars, repoVars, renderVars>>

\* if os.path.isfile(path_to_changelog) and not force:
\*     if not batch and not click.confirm("Overwrite existing ..."): sys.exit(1)
CheckExisting ==
    /\ mpc = "check"
    /\ IF files[format] # "absent" /\ ~force /\ ~batch
       THEN \E yes \in BOOLEAN :
                /\ prompts' = Append(prompts, OverwriteExisting)
                /\ overwriteAnswer' = IF yes THEN "yes" ELSE "no"
                /\ mpc' = IF yes THEN "write" ELSE "ended"
                /\ exitStatus' = IF yes THEN exitStatus ELSE 1
       ELSE /\ mpc' = "write"
            /\ UNCHANGED <<prompts, overwriteAnswer, exitStatus>>
    /\ UNCHANGED <<optionVars, files, existed,
                   classifyVars, labelVars, repoVars, renderVars>>

\* with open(path_to_changelog, "w") as fp: fp.write(contents)
WriteChangelog ==
    /\ mpc = "write"
    /\ files' = [files EXCEPT ![format] = "new"]
    /\ mpc' = "ended"
    /\ exitStatus' = 0
    /\ UNCHANGED <<optionVars, existed, prompts, overwriteAnswer,
                   classifyVars, labelVars, repoVars, renderVars>>

MainNext == MainRender \/ Preview \/ CheckExisting \/ WriteChangelog

SpecMain == MainInit /\ [][MainNext]_vars

\* C10: an existing CHANGELOG.<format> is overwritten only if --force was given
\* or the user answered yes to "Overwrite existing"; otherwise main exits with
\* status 1 and leaves the file unchanged; with --force an existing change log is
\* overwritten without the confirmation being asked.
OverwriteOnlyWhenAllowed ==
    /\ (existed /\ files[format] = "new") => (force \/ overwriteAnswer = "yes")
    /\ (existed /\ mpc = "ended" /\ ~force /\ overwriteAnswer # "yes") =>
           (exitStatus = 1 /\ files[format] = "old")
    /\ (existed /\ force) => \A i \in 1..Len(prompts) : prompts[i] # OverwriteExisting

====
